---- MODULE Spec2Model ----
(***************************************************************************)
(* Workflow engine of avivheldman/WorkFlow: workflow creation, the step    *)
(* loop of WorkflowEngine.execute_workflow, the sequential and parallel    *)
(* execution strategies and the in-memory state repository.                *)
(*                                                                         *)
(* Python dicts are insertion-ordered: a dict is modelled as a sequence of *)
(* entries [k |-> key, v |-> value] with pairwise distinct keys.           *)
(* Optional[bool] is modelled as <<>> (None) or <<b>>.                     *)
(***************************************************************************)
EXTENDS Integers, Sequences, FiniteSets, Bags, TLC

VARIABLES
    repo,     \* InMemoryStateRepository.states: workflow id -> saved dict
    ret,      \* value returned by create_workflow, per created id
    defs,     \* the WorkflowDefinition each id was created from
    writes,   \* number of save_workflow_state calls made per id
    run,      \* per id: the execute_workflow call (position and locals)
    http,     \* per id: the POST /workflow request that created it
    instances,\* InMemoryStateRepository objects of the process: name -> states
    saved,    \* the save_workflow_state calls that returned, latest per key
    durable   \* the RedisStateRepository object, the server's keys, last call

\* the repositories that are not the engine's
repos == <<instances, saved, durable>>

vars == <<repo, ret, defs, writes, run, http, instances, saved, durable>>

----------------------------------------------------------------------------
(* Bounds *)

MaxTasks == 3       \* longest task list of a step definition
NumLong == 11       \* number of steps of the long definition

----------------------------------------------------------------------------
(* Enumerations (schemas/workflow.py) *)

ExecutionType == {"sequential", "parallel"}
TaskStatus == {"pending", "running", "succeeded", "failed"}
WorkflowStatus == {"pending", "running", "succeeded", "failed"}

\* uuid.uuid4() draws from this identifier space
IdSpace == {"id1", "id2"}

\* absent value (Python None) where a record is expected
None == [none |-> TRUE]

\* what a task's execute() does: return True, return False, or raise
Outcomes == {"true", "false", "raise"}

----------------------------------------------------------------------------
(* Python dict operations *)

Keys(d) == [j \in 1..Len(d) |-> d[j].k]
Values(d) == [j \in 1..Len(d) |-> d[j].v]
HasKey(d, key) == \E j \in 1..Len(d) : d[j].k = key
IndexOf(d, key) == CHOOSE j \in 1..Len(d) : d[j].k = key
Get(d, key) == d[IndexOf(d, key)].v
Put(d, key, val) ==
    IF HasKey(d, key)
    THEN [d EXCEPT ![IndexOf(d, key)] = [k |-> key, v |-> val]]
    ELSE Append(d, [k |-> key, v |-> val])

\* the dict left by "for (k, v) in items: d[k] = v" on an empty dict: a key
\* keeps the position of its first assignment and the value of its last
FromItems(items) ==
    LET firsts == {j \in 1..Len(items) : \A l \in 1..(j - 1) : items[l].k # items[j].k}
        nth(n) == CHOOSE j \in firsts : Cardinality({l \in firsts : l < j}) = n - 1
        last(key) == CHOOSE j \in 1..Len(items) :
                        /\ items[j].k = key
                        /\ \A l \in (j + 1)..Len(items) : items[l].k # key
    IN [n \in 1..Cardinality(firsts) |->
          [k |-> items[nth(n)].k, v |-> items[last(items[nth(n)].k)].v]]

----------------------------------------------------------------------------
(* Step keys: str(i) in the factory, int after pydantic validation *)

StrKey(ds) == [kind |-> "str", digits |-> ds]
IntKey(n) == [kind |-> "int", n |-> n]

RECURSIVE Digits(_)
Digits(n) == IF n < 10 THEN <<n>> ELSE Append(Digits(n \div 10), n % 10)

\* str(i)
Str(n) == StrKey(Digits(n))

RECURSIVE ParseInt(_)
ParseInt(ds) ==
    IF Len(ds) = 0 THEN 0
    ELSE ParseInt(SubSeq(ds, 1, Len(ds) - 1)) * 10 + ds[Len(ds)]

\* mutant: the keys stay as they are (as for Dict[str, StepState])
CoerceKeyKeepsStr(key) == key

\* pydantic coercion of a key of Dict[int, StepState]
CoerceKey(key) == IF key.kind = "int" THEN key ELSE IntKey(ParseInt(key.digits))

\* Python lexicographic order on digit strings
RECURSIVE LexLess(_, _)
LexLess(a, b) ==
    IF Len(a) = 0 THEN Len(b) > 0
    ELSE IF Len(b) = 0 THEN FALSE
    ELSE IF a[1] # b[1] THEN a[1] < b[1]
    ELSE LexLess(Tail(a), Tail(b))

\* Python "<" on two keys of the same type
KeyLess(a, b) ==
    IF a.kind = "int" THEN a.n < b.n ELSE LexLess(a.digits, b.digits)

\* sorted(list): stable ascending order; an element's place is the number of
\* elements that sort before it
SortedKeys(s) ==
    LET before(j) == {l \in 1..Len(s) :
                        \/ KeyLess(s[l], s[j])
                        \/ (~KeyLess(s[j], s[l]) /\ l < j)}
    IN [n \in 1..Len(s) |-> s[CHOOSE j \in 1..Len(s) : Cardinality(before(j)) = n - 1]]

----------------------------------------------------------------------------
(* Task registry *)

Registry == {"task_a", "task_b", "task_c"}

----------------------------------------------------------------------------
(* Workflow definitions submitted by callers *)

RegSeq == <<"task_a", "task_b", "task_c">>
Canon(n) == [j \in 1..n |-> RegSeq[((j - 1) % 3) + 1]]
WithUnknown(n, p) == [Canon(n) EXCEPT ![p] = "task_x"]

TaskLists ==
    {Canon(n) : n \in 0..MaxTasks}
    \cup UNION {{WithUnknown(n, p) : p \in 1..n} : n \in 1..MaxTasks}
    \cup {<<"task_a", "task_a">>}

StepDefs == [execution_type : ExecutionType, tasks : TaskLists]

\* steps used in the two-step definitions
ShortLists == {<<>>, <<"task_a">>, <<"task_x">>}
ShortSteps == [execution_type : ExecutionType, tasks : ShortLists]

\* the workflow of tests/test.py: sequential [task_a, task_b], parallel [task_c]
TestDef ==
    [name |-> "test_workflow",
     steps |-> << [execution_type |-> "sequential", tasks |-> <<"task_a", "task_b">>],
                  [execution_type |-> "parallel", tasks |-> <<"task_c">>] >>]

\* NumLong single-task steps, alternating execution types
LongDef ==
    [name |-> "long",
     steps |-> [j \in 1..NumLong |->
                  [execution_type |-> IF j % 2 = 1 THEN "sequential" ELSE "parallel",
                   tasks |-> <<"task_a">>]]]

Definitions ==
    {[name |-> "empty", steps |-> <<>>]}
    \cup {[name |-> "one", steps |-> <<s>>] : s \in StepDefs}
    \cup {[name |-> "two", steps |-> <<s, t>>] : s \in ShortSteps, t \in ShortSteps}
    \cup {TestDef, LongDef}

----------------------------------------------------------------------------
(* Time: datetime.now() read while handling workflow id.  Time advances   *)
(* with every persisted write of that workflow.                           *)

Now(id) == writes[id] + 1

----------------------------------------------------------------------------
(* pydantic models *)

TaskState(name) == [name |-> name, status |-> "pending", result |-> <<>>]

\* the loop over step_def.tasks filling step_state.tasks
TaskStatesOf(task_defs) ==
    FromItems([j \in 1..Len(task_defs) |-> [k |-> task_defs[j], v |-> TaskState(task_defs[j])]])

StepState(step_def) ==
    [execution_type |-> step_def.execution_type,
     status |-> "pending",
     tasks |-> TaskStatesOf(step_def.tasks)]

\* the loop over enumerate(definition.steps) filling workflow_state.steps
\* mutant: steps keyed from 1
StepStatesOfOneBased(step_defs) ==
    FromItems([j \in 1..Len(step_defs) |-> [k |-> Str(j), v |-> StepState(step_defs[j])]])

StepStatesOf(step_defs) ==
    FromItems([j \in 1..Len(step_defs) |-> [k |-> Str(j - 1), v |-> StepState(step_defs[j])]])

\* BaseModel.dict(): a fresh nested dict with the same keys and values
ModelDict(ws) ==
    [id |-> ws.id, name |-> ws.name, status |-> ws.status,
     steps |-> [j \in 1..Len(ws.steps) |->
                  [k |-> ws.steps[j].k,
                   v |-> [execution_type |-> ws.steps[j].v.execution_type,
                          status |-> ws.steps[j].v.status,
                          tasks |-> [l \in 1..Len(ws.steps[j].v.tasks) |->
                                       ws.steps[j].v.tasks[l]]]]],
     created_at |-> ws.created_at, updated_at |-> ws.updated_at]

\* WorkflowState(**state_dict): the keys of steps are coerced to int
CoerceSteps(steps) ==
    FromItems([j \in 1..Len(steps) |-> [k |-> CoerceKey(steps[j].k), v |-> steps[j].v]])

Validate(d) == [d EXCEPT !.steps = CoerceSteps(d.steps)]

----------------------------------------------------------------------------
(* State repository (in-memory) *)

\* mutant: dict.setdefault, a key already present keeps its state
SaveWorkflowStateSetDefault(r, id, state) ==
    IF id \in DOMAIN r THEN r ELSE (id :> state) @@ r

\* mutant: the store is rebound to a dict holding the saved state only
SaveWorkflowStateRebinds(r, id, state) == (id :> state)

SaveWorkflowState(r, id, state) == (id :> state) @@ r
GetWorkflowState(r, id) == IF id \in DOMAIN r THEN r[id] ELSE None

\* list(self.states.values()), as the bag of its elements
GetAllWorkflowStates(r) ==
    [state \in {r[id] : id \in DOMAIN r} |->
        Cardinality({id \in DOMAIN r : r[id] = state})]

\* WorkflowEngine.get_workflow_state
EngineGetWorkflowState(id) ==
    LET state_dict == GetWorkflowState(repo, id)
    IN IF state_dict = None THEN None ELSE Validate(state_dict)

----------------------------------------------------------------------------
(* The execute_workflow call of one id *)

IdleRun ==
    [pc |-> "idle", ws |-> None, step_indices |-> <<>>, pos |-> 0,
     tasks |-> <<>>, settled |-> <<>>, finished |-> <<>>, results |-> <<>>,
     success |-> TRUE, execlog |-> <<>>]

\* no POST /workflow request has been made for the id
NoRequest == [pc |-> "none", scheduled |-> 0, response |-> None]

Init ==
    /\ repo = <<>>
    /\ ret = <<>>
    /\ defs = <<>>
    /\ writes = [id \in IdSpace |-> 0]
    /\ run = [id \in IdSpace |-> IdleRun]
    /\ http = [id \in IdSpace |-> NoRequest]
    /\ instances = <<>>
    /\ saved = [any |-> <<>>, by |-> <<>>, call |-> None]
    /\ durable = [redis_client |-> "unset", at_init |-> "unset",
                  keys |-> <<>>, call |-> None]

\* WorkflowFactory.create_workflow
CreateWorkflow(id, definition) ==
    /\ id \notin DOMAIN repo
    /\ LET workflow_state ==
               [id |-> id, name |-> definition.name, status |-> "pending",
                steps |-> StepStatesOf(definition.steps),
                created_at |-> Now(id), updated_at |-> Now(id)]
       IN /\ repo' = SaveWorkflowState(repo, id, ModelDict(workflow_state))
          /\ ret' = (id :> workflow_state) @@ ret
    /\ defs' = (id :> definition) @@ defs
    /\ writes' = [writes EXCEPT ![id] = @ + 1]
    /\ run' = [run EXCEPT ![id] = IdleRun]
    /\ UNCHANGED repos

\* mutant: records a FAILED workflow under the unknown id before raising
ExecuteUnknownRecordsFailure(id) ==
    /\ run[id].pc = "idle"
    /\ GetWorkflowState(repo, id) = None
    /\ repo' = SaveWorkflowState(repo, id,
                  [id |-> id, name |-> "", status |-> "failed", steps |-> <<>>,
                   created_at |-> Now(id), updated_at |-> Now(id)])
    /\ writes' = [writes EXCEPT ![id] = @ + 1]
    /\ run' = [run EXCEPT ![id].pc = "raised"]
    /\ UNCHANGED <<ret, defs, http, repos>>

\* execute_workflow on an id the repository does not hold: ValueError
ExecuteUnknown(id) ==
    /\ run[id].pc = "idle"
    /\ GetWorkflowState(repo, id) = None
    /\ run' = [run EXCEPT ![id].pc = "raised"]
    /\ UNCHANGED <<repo, ret, defs, writes, http, repos>>

\* execute_workflow up to the first save: status RUNNING, sorted step indices
ExecuteStart(id) ==
    /\ run[id].pc = "idle"
    /\ GetWorkflowState(repo, id) # None
    /\ LET loaded == Validate(GetWorkflowState(repo, id))
           workflow_state == [loaded EXCEPT !.status = "running", !.updated_at = Now(id)]
       IN /\ repo' = SaveWorkflowState(repo, id, ModelDict(workflow_state))
          /\ run' = [run EXCEPT ![id] =
                        [IdleRun EXCEPT !.pc = "loop", !.ws = workflow_state,
                                        !.step_indices = SortedKeys(Keys(workflow_state.steps)),
                                        !.pos = 1]]
    /\ writes' = [writes EXCEPT ![id] = @ + 1]
    /\ UNCHANGED <<ret, defs, http, repos>>

\* the step the loop is at, and its StepState in workflow_state
StepIdx(r) == r.step_indices[r.pos]
CurStep(r) == Get(r.ws.steps, StepIdx(r))

\* dict item assignment workflow_state.steps[step_idx] = step (in-place mutation)
WithStep(ws, step_idx, step) == [ws EXCEPT !.steps = Put(ws.steps, step_idx, step)]

\* mutant: marks every step RUNNING, not only the one the loop is at
StepBeginMarksAll(id) ==
    /\ run[id].pc = "loop"
    /\ run[id].pos <= Len(run[id].step_indices)
    /\ LET r == run[id]
           workflow_state ==
               [r.ws EXCEPT !.steps =
                   [j \in 1..Len(r.ws.steps) |->
                       [k |-> r.ws.steps[j].k,
                        v |-> [r.ws.steps[j].v EXCEPT !.status = "running"]]]]
       IN /\ repo' = SaveWorkflowState(repo, id, ModelDict(workflow_state))
          /\ run' = [run EXCEPT ![id].ws = workflow_state, ![id].pc = "step"]
    /\ writes' = [writes EXCEPT ![id] = @ + 1]
    /\ UNCHANGED <<ret, defs, http, repos>>

\* mutant: the tasks of the step are marked RUNNING together with the step
StepBeginMarksTasksRunning(id) ==
    /\ run[id].pc = "loop"
    /\ run[id].pos <= Len(run[id].step_indices)
    /\ LET r == run[id]
           step_idx == StepIdx(r)
           cur == Get(r.ws.steps, step_idx)
           step == [cur EXCEPT !.status = "running",
                               !.tasks = [l \in 1..Len(cur.tasks) |->
                                            [k |-> cur.tasks[l].k,
                                             v |-> [cur.tasks[l].v EXCEPT
                                                      !.status = "running"]]]]
           workflow_state == WithStep(r.ws, step_idx, step)
       IN /\ repo' = SaveWorkflowState(repo, id, ModelDict(workflow_state))
          /\ run' = [run EXCEPT ![id].ws = workflow_state, ![id].pc = "step"]
    /\ writes' = [writes EXCEPT ![id] = @ + 1]
    /\ UNCHANGED <<ret, defs, http, repos>>

\* for-loop head with a step left: mark it RUNNING and save
StepBegin(id) ==
    /\ run[id].pc = "loop"
    /\ run[id].pos <= Len(run[id].step_indices)
    /\ LET r == run[id]
           step_idx == StepIdx(r)
       IN IF ~HasKey(r.ws.steps, step_idx)
          THEN LET workflow_state == [r.ws EXCEPT !.status = "failed", !.updated_at = Now(id)]
               IN /\ repo' = SaveWorkflowState(repo, id, ModelDict(workflow_state))
                  /\ run' = [run EXCEPT ![id].ws = workflow_state, ![id].pc = "done"]
          ELSE LET step == [Get(r.ws.steps, step_idx) EXCEPT !.status = "running"]
                   workflow_state == WithStep(r.ws, step_idx, step)
               IN /\ repo' = SaveWorkflowState(repo, id, ModelDict(workflow_state))
                  /\ run' = [run EXCEPT ![id].ws = workflow_state, ![id].pc = "step"]
    /\ writes' = [writes EXCEPT ![id] = @ + 1]
    /\ UNCHANGED <<ret, defs, http, repos>>

\* mutant: every stored workflow that is RUNNING is marked SUCCEEDED
FinishMarksEveryRunning(id) ==
    /\ run[id].pc = "loop"
    /\ run[id].pos > Len(run[id].step_indices)
    /\ LET workflow_state == [run[id].ws EXCEPT !.status = "succeeded", !.updated_at = Now(id)]
       IN /\ repo' = [k \in DOMAIN repo |->
                        IF k = id THEN ModelDict(workflow_state)
                        ELSE IF repo[k].status = "running"
                        THEN [repo[k] EXCEPT !.status = "succeeded"]
                        ELSE repo[k]]
          /\ run' = [run EXCEPT ![id].ws = workflow_state, ![id].pc = "done"]
    /\ writes' = [writes EXCEPT ![id] = @ + 1]
    /\ UNCHANGED <<ret, defs, http, repos>>

\* for-loop exhausted: all steps succeeded
Finish(id) ==
    /\ run[id].pc = "loop"
    /\ run[id].pos > Len(run[id].step_indices)
    /\ LET workflow_state == [run[id].ws EXCEPT !.status = "succeeded", !.updated_at = Now(id)]
       IN /\ repo' = SaveWorkflowState(repo, id, ModelDict(workflow_state))
          /\ run' = [run EXCEPT ![id].ws = workflow_state, ![id].pc = "done"]
    /\ writes' = [writes EXCEPT ![id] = @ + 1]
    /\ UNCHANGED <<ret, defs, http, repos>>

\* TaskFactory.create_task raises ValueError for these names
Registered(task_name) == task_name \in Registry

\* _execute_step up to the call of the strategy: empty check and task creation
BuildTasks(id) ==
    /\ run[id].pc = "step"
    /\ LET step == CurStep(run[id])
           task_names == Keys(step.tasks)
       IN IF Len(step.tasks) = 0
          THEN run' = [run EXCEPT ![id].success = FALSE, ![id].pc = "returned"]
          ELSE IF \E j \in 1..Len(task_names) : ~Registered(task_names[j])
          THEN run' = [run EXCEPT ![id].success = FALSE, ![id].pc = "returned"]
          ELSE run' = [run EXCEPT ![id].tasks = task_names,
                                  ![id].results = <<>>,
                                  ![id].settled = <<>>,
                                  ![id].pc = step.execution_type]
    /\ UNCHANGED <<repo, ret, defs, writes, http, repos>>

\* one entry of the execution log: task name run within step step_idx
Executed(step_idx, name) == [step |-> step_idx, task |-> name]

\* mutant: the except branch records False but does not break
SequentialTaskNoBreakOnRaise(id, outcome) ==
    /\ run[id].pc = "sequential"
    /\ LET r == run[id]
           n == Len(r.settled) + 1
           name == r.tasks[n]
           result == (outcome = "true")
           stop == (outcome = "false") \/ n = Len(r.tasks)
       IN run' = [run EXCEPT ![id].results = Put(r.results, name, result),
                             ![id].settled = Append(r.settled, outcome),
                             ![id].execlog = Append(r.execlog, Executed(StepIdx(r), name)),
                             ![id].pc = IF stop THEN "reconcile" ELSE "sequential"]
    /\ UNCHANGED <<repo, ret, defs, writes, http, repos>>

\* SequentialExecution.execute: one iteration of the loop over tasks
SequentialTask(id, outcome) ==
    /\ run[id].pc = "sequential"
    /\ LET r == run[id]
           n == Len(r.settled) + 1
           name == r.tasks[n]
           result == (outcome = "true")
           stop == (~result) \/ n = Len(r.tasks)
       IN run' = [run EXCEPT ![id].results = Put(r.results, name, result),
                             ![id].settled = Append(r.settled, outcome),
                             ![id].execlog = Append(r.execlog, Executed(StepIdx(r), name)),
                             ![id].pc = IF stop THEN "reconcile" ELSE "sequential"]
    /\ UNCHANGED <<repo, ret, defs, writes, http, repos>>

\* every coroutine handed to gather is started, in list order
LogAll(log, step_idx, names) ==
    log \o [j \in 1..Len(names) |-> Executed(step_idx, names[j])]

\* ParallelExecution.execute: task.execute() of every task handed to gather
ParallelLaunch(id) ==
    /\ run[id].pc = "parallel"
    /\ LET r == run[id]
       IN run' = [run EXCEPT ![id].settled = [j \in 1..Len(r.tasks) |-> "pending"],
                             ![id].execlog = LogAll(r.execlog, StepIdx(r), r.tasks),
                             ![id].pc = "gather"]
    /\ UNCHANGED <<repo, ret, defs, writes, http, repos>>

\* one gathered coroutine finishes; finished is the order of completion
ParallelSettle(id, j, outcome) ==
    /\ run[id].pc = "gather"
    /\ j \in 1..Len(run[id].settled)
    /\ run[id].settled[j] = "pending"
    /\ run' = [run EXCEPT ![id].settled[j] = outcome,
                          ![id].finished = Append(@, j)]
    /\ UNCHANGED <<repo, ret, defs, writes, http, repos>>

\* the loop over zip(tasks, execution_results) after gather returned
\* mutant: gather without return_exceptions; one exception reaches the
\* outer handler, which gives every task False
GatherResultsFirstException(tasks, execution_results) ==
    LET n == IF Len(tasks) < Len(execution_results)
             THEN Len(tasks) ELSE Len(execution_results)
        raised == \E j \in 1..n : execution_results[j] = "raise"
    IN FromItems([j \in 1..n |->
                    [k |-> tasks[j],
                     v |-> IF raised THEN FALSE ELSE execution_results[j] = "true"]])

GatherResults(tasks, execution_results) ==
    LET n == IF Len(tasks) < Len(execution_results)
             THEN Len(tasks) ELSE Len(execution_results)
    IN FromItems([j \in 1..n |->
                    [k |-> tasks[j],
                     v |-> IF execution_results[j] = "raise"
                           THEN FALSE ELSE execution_results[j] = "true"]])

\* mutant: returns as soon as one task has failed
ParallelGatherOnFirstFailure(id) ==
    /\ run[id].pc = "gather"
    /\ \/ \A j \in 1..Len(run[id].settled) : run[id].settled[j] # "pending"
       \/ \E j \in 1..Len(run[id].settled) : run[id].settled[j] \in {"false", "raise"}
    /\ run' = [run EXCEPT ![id].results = GatherResults(run[id].tasks, run[id].settled),
                          ![id].finished = <<>>,
                          ![id].pc = "reconcile"]
    /\ UNCHANGED <<repo, ret, defs, writes, http, repos>>

\* asyncio.gather(..., return_exceptions=True) returns once all have settled
ParallelGather(id) ==
    /\ run[id].pc = "gather"
    /\ \A j \in 1..Len(run[id].settled) : run[id].settled[j] # "pending"
    /\ run' = [run EXCEPT ![id].results = GatherResults(run[id].tasks, run[id].settled),
                          ![id].finished = <<>>,
                          ![id].pc = "reconcile"]
    /\ UNCHANGED <<repo, ret, defs, writes, http, repos>>

\* the loop "for task, result in zip(tasks, results.values())" over n pairs
\* mutant: step_success is assigned the result of the last pair only
UpdateTaskStatesLastOnly(step_tasks, tasks, results, n) ==
    LET pairs(task_name) == {j \in 1..n : tasks[j] = task_name}
        lastpair(task_name) == CHOOSE j \in pairs(task_name) :
                                  \A l \in pairs(task_name) : l <= j
    IN [tasks |->
          [l \in 1..Len(step_tasks) |->
             IF pairs(step_tasks[l].k) = {} THEN step_tasks[l]
             ELSE [k |-> step_tasks[l].k,
                   v |-> [step_tasks[l].v EXCEPT
                            !.status = IF results[lastpair(step_tasks[l].k)]
                                       THEN "succeeded" ELSE "failed",
                            !.result = <<results[lastpair(step_tasks[l].k)]>>]]],
        step_success |-> n > 0 /\ HasKey(step_tasks, tasks[n]) /\ results[n]]

\* mutant: step.tasks is rebuilt from the tasks that have a result
UpdateTaskStatesOnlyExecuted(step_tasks, tasks, results, n) ==
    [tasks |-> FromItems([j \in 1..n |->
                     [k |-> tasks[j],
                      v |-> [name |-> tasks[j],
                             status |-> IF results[j] THEN "succeeded" ELSE "failed",
                             result |-> <<results[j]>>]]]),
        step_success |->
          \A j \in 1..n : HasKey(step_tasks, tasks[j]) /\ results[j]]

\* mutant: a task without a pair is marked FAILED
UpdateTaskStatesFailsRest(step_tasks, tasks, results, n) ==
    LET pairs(task_name) == {j \in 1..n : tasks[j] = task_name}
        lastpair(task_name) == CHOOSE j \in pairs(task_name) :
                                  \A l \in pairs(task_name) : l <= j
    IN [tasks |->
          [l \in 1..Len(step_tasks) |->
             IF pairs(step_tasks[l].k) = {}
             THEN [k |-> step_tasks[l].k,
                   v |-> [step_tasks[l].v EXCEPT !.status = "failed"]]
             ELSE [k |-> step_tasks[l].k,
                   v |-> [step_tasks[l].v EXCEPT
                            !.status = IF results[lastpair(step_tasks[l].k)]
                                       THEN "succeeded" ELSE "failed",
                            !.result = <<results[lastpair(step_tasks[l].k)]>>]]],
        step_success |->
          \A j \in 1..n : HasKey(step_tasks, tasks[j]) /\ results[j]]

\* a task state is overwritten by the last pair that names it; step_success
\* is cleared by a False result and by a name missing from step.tasks
UpdateTaskStates(step_tasks, tasks, results, n) ==
    LET pairs(task_name) == {j \in 1..n : tasks[j] = task_name}
        lastpair(task_name) == CHOOSE j \in pairs(task_name) :
                                  \A l \in pairs(task_name) : l <= j
    IN [tasks |->
          [l \in 1..Len(step_tasks) |->
             IF pairs(step_tasks[l].k) = {} THEN step_tasks[l]
             ELSE [k |-> step_tasks[l].k,
                   v |-> [step_tasks[l].v EXCEPT
                            !.status = IF results[lastpair(step_tasks[l].k)]
                                       THEN "succeeded" ELSE "failed",
                            !.result = <<results[lastpair(step_tasks[l].k)]>>]]],
        step_success |->
          \A j \in 1..n : HasKey(step_tasks, tasks[j]) /\ results[j]]

\* mutant: the step result is kept in memory and saved with the next write
ReconcileDefersSave(id) ==
    /\ run[id].pc = "reconcile"
    /\ LET r == run[id]
           values == Values(r.results)
           n == IF Len(r.tasks) < Len(values) THEN Len(r.tasks) ELSE Len(values)
           upd == UpdateTaskStates(CurStep(r).tasks, r.tasks, values, n)
           step == [CurStep(r) EXCEPT
                      !.tasks = upd.tasks,
                      !.status = IF upd.step_success THEN "succeeded" ELSE "failed"]
           workflow_state == WithStep(r.ws, StepIdx(r), step)
       IN run' = [run EXCEPT ![id].ws = workflow_state,
                             ![id].success = upd.step_success,
                             ![id].tasks = <<>>, ![id].results = <<>>,
                             ![id].settled = <<>>,
                             ![id].pc = "returned"]
    /\ UNCHANGED <<repo, ret, defs, writes, http, repos>>

\* mutant: the results are applied to the tasks of that name in every step
ReconcileEveryStep(id) ==
    /\ run[id].pc = "reconcile"
    /\ LET r == run[id]
           values == Values(r.results)
           n == IF Len(r.tasks) < Len(values) THEN Len(r.tasks) ELSE Len(values)
           upd == UpdateTaskStates(CurStep(r).tasks, r.tasks, values, n)
           everywhere ==
               [r.ws EXCEPT !.steps =
                   [j \in 1..Len(r.ws.steps) |->
                       [k |-> r.ws.steps[j].k,
                        v |-> [r.ws.steps[j].v EXCEPT !.tasks =
                                  UpdateTaskStates(@, r.tasks, values, n).tasks]]]]
           step == [CurStep(r) EXCEPT
                      !.tasks = upd.tasks,
                      !.status = IF upd.step_success THEN "succeeded" ELSE "failed"]
           workflow_state == WithStep(everywhere, StepIdx(r), step)
       IN /\ repo' = SaveWorkflowState(repo, id, ModelDict(workflow_state))
          /\ run' = [run EXCEPT ![id].ws = workflow_state,
                                ![id].success = upd.step_success,
                                ![id].tasks = <<>>, ![id].results = <<>>,
                                ![id].settled = <<>>,
                                ![id].pc = "returned"]
    /\ writes' = [writes EXCEPT ![id] = @ + 1]
    /\ UNCHANGED <<ret, defs, http, repos>>

\* _execute_step after the strategy returned: update task states, step status, save
Reconcile(id) ==
    /\ run[id].pc = "reconcile"
    /\ LET r == run[id]
           values == Values(r.results)
           n == IF Len(r.tasks) < Len(values) THEN Len(r.tasks) ELSE Len(values)
           upd == UpdateTaskStates(CurStep(r).tasks, r.tasks, values, n)
           step == [CurStep(r) EXCEPT
                      !.tasks = upd.tasks,
                      !.status = IF upd.step_success THEN "succeeded" ELSE "failed"]
           workflow_state == WithStep(r.ws, StepIdx(r), step)
       IN /\ repo' = SaveWorkflowState(repo, id, ModelDict(workflow_state))
          /\ run' = [run EXCEPT ![id].ws = workflow_state,
                                ![id].success = upd.step_success,
                                ![id].tasks = <<>>, ![id].results = <<>>,
                                ![id].settled = <<>>,
                                ![id].pc = "returned"]
    /\ writes' = [writes EXCEPT ![id] = @ + 1]
    /\ UNCHANGED <<ret, defs, http, repos>>

\* mutant: marks the workflow FAILED but goes on with the next step
StepFailedContinues(id) ==
    /\ run[id].pc = "returned"
    /\ ~run[id].success
    /\ LET workflow_state == [run[id].ws EXCEPT !.status = "failed", !.updated_at = Now(id)]
       IN /\ repo' = SaveWorkflowState(repo, id, ModelDict(workflow_state))
          /\ run' = [run EXCEPT ![id].ws = workflow_state, ![id].pos = @ + 1,
                                ![id].pc = "loop"]
    /\ writes' = [writes EXCEPT ![id] = @ + 1]
    /\ UNCHANGED <<ret, defs, http, repos>>

\* mutant: returns without marking the workflow FAILED
StepFailedKeepsRunning(id) ==
    /\ run[id].pc = "returned"
    /\ ~run[id].success
    /\ LET workflow_state == [run[id].ws EXCEPT !.updated_at = Now(id)]
       IN /\ repo' = SaveWorkflowState(repo, id, ModelDict(workflow_state))
          /\ run' = [run EXCEPT ![id].ws = workflow_state, ![id].pc = "done"]
    /\ writes' = [writes EXCEPT ![id] = @ + 1]
    /\ UNCHANGED <<ret, defs, http, repos>>

\* mutant: saves first and marks the workflow FAILED afterwards
StepFailedSavesFirst(id) ==
    /\ run[id].pc = "returned"
    /\ ~run[id].success
    /\ LET workflow_state == [run[id].ws EXCEPT !.status = "failed", !.updated_at = Now(id)]
       IN /\ repo' = SaveWorkflowState(repo, id, ModelDict(run[id].ws))
          /\ run' = [run EXCEPT ![id].ws = workflow_state, ![id].pc = "done"]
    /\ writes' = [writes EXCEPT ![id] = @ + 1]
    /\ UNCHANGED <<ret, defs, http, repos>>

\* "if not success": fail the workflow and return
StepFailed(id) ==
    /\ run[id].pc = "returned"
    /\ ~run[id].success
    /\ LET workflow_state == [run[id].ws EXCEPT !.status = "failed", !.updated_at = Now(id)]
       IN /\ repo' = SaveWorkflowState(repo, id, ModelDict(workflow_state))
          /\ run' = [run EXCEPT ![id].ws = workflow_state, ![id].pc = "done"]
    /\ writes' = [writes EXCEPT ![id] = @ + 1]
    /\ UNCHANGED <<ret, defs, http, repos>>

\* the step succeeded: next iteration of the for-loop
StepSucceeded(id) ==
    /\ run[id].pc = "returned"
    /\ run[id].success
    /\ run' = [run EXCEPT ![id].pos = @ + 1, ![id].pc = "loop"]
    /\ UNCHANGED <<repo, ret, defs, writes, http, repos>>

\* the driver of test_workflow_engine: one workflow created on a new repository
Create(id, definition) ==
    /\ repo = <<>>
    /\ CreateWorkflow(id, definition)
    /\ UNCHANGED http

Next ==
    \/ \E id \in IdSpace, definition \in Definitions : Create(id, definition)
    \/ \E id \in IdSpace : ExecuteUnknown(id)
    \/ \E id \in IdSpace : ExecuteStart(id)
    \/ \E id \in IdSpace : StepBegin(id)
    \/ \E id \in IdSpace : Finish(id)
    \/ \E id \in IdSpace : BuildTasks(id)
    \/ \E id \in IdSpace, outcome \in Outcomes : SequentialTask(id, outcome)
    \/ \E id \in IdSpace : ParallelLaunch(id)
    \/ \E id \in IdSpace, j \in 1..(MaxTasks + 1), outcome \in Outcomes :
          ParallelSettle(id, j, outcome)
    \/ \E id \in IdSpace : ParallelGather(id)
    \/ \E id \in IdSpace : Reconcile(id)
    \/ \E id \in IdSpace : StepFailed(id)
    \/ \E id \in IdSpace : StepSucceeded(id)

Spec == Init /\ [][Next]_vars

\* the steps of a started execute_workflow call; the event loop keeps running it
ExecuteStep(id) ==
    \/ StepBegin(id)
    \/ Finish(id)
    \/ BuildTasks(id)
    \/ \E outcome \in Outcomes : SequentialTask(id, outcome)
    \/ ParallelLaunch(id)
    \/ \E j \in 1..(MaxTasks + 1), outcome \in Outcomes : ParallelSettle(id, j, outcome)
    \/ ParallelGather(id)
    \/ Reconcile(id)
    \/ StepFailed(id)
    \/ StepSucceeded(id)

\* every started call keeps being scheduled and every task's execute() terminates
FairSpec == Spec /\ \A id \in IdSpace : WF_vars(ExecuteStep(id))

----------------------------------------------------------------------------
(* An unexpected error inside _execute_step *)

\* the save after the reconcile loop raises (a repository that fails for
\* one call): the handler of _execute_step marks the step FAILED, saves and
\* returns False
StepUnexpectedError(id) ==
    /\ run[id].pc = "reconcile"
    /\ LET r == run[id]
           values == Values(r.results)
           n == IF Len(r.tasks) < Len(values) THEN Len(r.tasks) ELSE Len(values)
           upd == UpdateTaskStates(CurStep(r).tasks, r.tasks, values, n)
           step == [CurStep(r) EXCEPT !.tasks = upd.tasks, !.status = "failed"]
           workflow_state == WithStep(r.ws, StepIdx(r), step)
       IN /\ repo' = SaveWorkflowState(repo, id, ModelDict(workflow_state))
          /\ run' = [run EXCEPT ![id].ws = workflow_state,
                                ![id].success = FALSE,
                                ![id].tasks = <<>>, ![id].results = <<>>,
                                ![id].settled = <<>>,
                                ![id].pc = "returned"]
    /\ writes' = [writes EXCEPT ![id] = @ + 1]
    /\ UNCHANGED <<ret, defs, http, repos>>

FaultNext ==
    \/ Next
    \/ \E id \in IdSpace : StepUnexpectedError(id)

FaultSpec == Init /\ [][FaultNext]_vars

----------------------------------------------------------------------------
(* The HTTP API (routers/workflow.py): every request builds an engine on  *)
(* the one repository of the process                                       *)

\* WorkflowEngine.get_all_workflows
EngineGetAllWorkflows ==
    LET state_dicts == GetAllWorkflowStates(repo)
    IN [ws \in {Validate(d) : d \in DOMAIN state_dicts} |->
           LET same == {d \in DOMAIN state_dicts : Validate(d) = ws}
           IN BagCardinality([d \in same |-> state_dicts[d]])]

\* definitions posted by the clients
PostedDefs == {[name |-> "empty", steps |-> <<>>], TestDef}

\* POST /workflow, "workflow = await engine.create_workflow(definition)"
PostCreate(id, definition) ==
    /\ http[id].pc = "none"
    /\ CreateWorkflow(id, definition)
    /\ http' = [http EXCEPT ![id].pc = "created"]

\* POST /workflow, add_task(engine.execute_workflow, workflow.id) and the
\* 202 response
PostRespond(id) ==
    /\ http[id].pc = "created"
    /\ http' = [http EXCEPT ![id] =
                   [pc |-> "responded",
                    scheduled |-> @.scheduled + 1,
                    response |-> [status_code |-> 202,
                                  workflow_id |-> ret[id].id,
                                  status |-> ret[id].status]]]
    /\ UNCHANGED <<repo, ret, defs, writes, run, repos>>

\* mutant: the handler awaits execute_workflow itself before it responds
BackgroundRunInline(id) ==
    /\ http[id].pc = "created"
    /\ ExecuteStart(id)

\* the background task starts once the response has been sent
BackgroundRun(id) ==
    /\ http[id].pc = "responded"
    /\ http[id].scheduled > 0
    /\ ExecuteStart(id)

\* GET /workflow/{workflow_id}
GetWorkflow(id) ==
    LET workflow == EngineGetWorkflowState(id)
    IN IF workflow = None
       THEN [status_code |-> 404]
       ELSE [status_code |-> 200, body |-> workflow]

HttpNext ==
    \/ \E id \in IdSpace, definition \in PostedDefs : PostCreate(id, definition)
    \/ \E id \in IdSpace : PostRespond(id)
    \/ \E id \in IdSpace : BackgroundRun(id)
    \/ \E id \in IdSpace : StepBegin(id)
    \/ \E id \in IdSpace : Finish(id)
    \/ \E id \in IdSpace : BuildTasks(id)
    \/ \E id \in IdSpace, outcome \in Outcomes : SequentialTask(id, outcome)
    \/ \E id \in IdSpace : ParallelLaunch(id)
    \/ \E id \in IdSpace, j \in 1..(MaxTasks + 1), outcome \in Outcomes :
          ParallelSettle(id, j, outcome)
    \/ \E id \in IdSpace : ParallelGather(id)
    \/ \E id \in IdSpace : Reconcile(id)
    \/ \E id \in IdSpace : StepFailed(id)
    \/ \E id \in IdSpace : StepSucceeded(id)

HttpSpec == Init /\ [][HttpNext]_vars

----------------------------------------------------------------------------
(* InMemoryStateRepository objects used directly, as test_repository does *)

InstanceNames == {"r1", "r2"}
RepoKeys == {"id1", "test-workflow"}

\* test_state of test_repository: RUNNING, no steps
TestState ==
    [id |-> "id2", name |-> "test-workflow-name", status |-> "running",
     steps |-> <<>>, created_at |-> 1, updated_at |-> 1]

\* what create_workflow saves for TestDef
FreshState ==
    ModelDict([id |-> "id1", name |-> TestDef.name, status |-> "pending",
               steps |-> StepStatesOf(TestDef.steps),
               created_at |-> 1, updated_at |-> 1])

\* what execute_workflow saves after the first step of TestDef ran with
\* task_a True and task_b False
WrittenState ==
    LET loaded == [Validate(FreshState) EXCEPT !.status = "running", !.updated_at = 2]
        step == Get(loaded.steps, IntKey(0))
        upd == UpdateTaskStates(step.tasks, <<"task_a", "task_b">>, <<TRUE, FALSE>>, 2)
    IN ModelDict(WithStep(loaded, IntKey(0),
                          [step EXCEPT !.tasks = upd.tasks, !.status = "failed"]))

SampleStates == {TestState, FreshState, WrittenState}

\* InMemoryStateRepository()
NewRepository(i) ==
    /\ i \notin DOMAIN instances
    /\ instances' = (i :> <<>>) @@ instances
    /\ saved' = [saved EXCEPT !.by = (i :> <<>>) @@ @]
    /\ UNCHANGED <<repo, ret, defs, writes, run, http, durable>>

\* instance i: save_workflow_state(key, state)
RepoSave(i, key, state) ==
    /\ i \in DOMAIN instances
    /\ instances' = [instances EXCEPT ![i] = SaveWorkflowState(@, key, state)]
    /\ saved' = [any |-> [k \in DOMAIN saved.any \cup {key} |->
                            IF k = key THEN state ELSE saved.any[k]],
                 by |-> [saved.by EXCEPT ![i] =
                            [k \in DOMAIN @ \cup {key} |->
                                IF k = key THEN state ELSE @[k]]],
                 call |-> [instance |-> i, key |-> key, state |-> state]]
    /\ UNCHANGED <<repo, ret, defs, writes, run, http, durable>>

RepoNext ==
    \/ \E i \in InstanceNames : NewRepository(i)
    \/ \E i \in InstanceNames, key \in RepoKeys, state \in SampleStates :
          RepoSave(i, key, state)

RepoSpec == Init /\ [][RepoNext]_vars

----------------------------------------------------------------------------
(* RedisStateRepository: the object (redis_client) and the server's keys.  *)
(* A call ends with Returns(value) or Raises(exception).  The fault of a  *)
(* call is what the server does to it: nothing, a ConnectionError, or any  *)
(* other exception of the client library.                                  *)

Faults == {"none", "connection", "other"}
Returns(value) == [returned |-> value]
Raises(exception) == [raised |-> exception]

\* json.dumps turns an int key into the string of its digits
JsonKey(key) == IF key.kind = "int" THEN Str(key.n) ELSE key

\* mutant: the keys are written as they are
JsonDumpsKeepsKeys(state) == [json |-> state]

\* json.dumps(state): the document of a state dict
JsonDumps(state) ==
    [json |-> [state EXCEPT !.steps =
                  [j \in 1..Len(state.steps) |->
                      [k |-> JsonKey(state.steps[j].k), v |-> state.steps[j].v]]]]

\* json.loads(state_json): string keys, the last of equal keys wins
JsonLoads(state_json) ==
    [state_json.json EXCEPT !.steps = FromItems(state_json.json.steps)]

\* RedisStateRepository.save_workflow_state
RedisSaveWorkflowState(self, workflow_id, state, fault) ==
    IF self.redis_client = "none"
    THEN LET in_memory == SaveWorkflowState(<<>>, workflow_id, state)
         IN [self |-> self, ret |-> Returns(None)]
    ELSE IF fault # "none"
    THEN [self |-> self, ret |-> Raises(fault)]
    ELSE [self |-> [self EXCEPT !.keys = (workflow_id :> JsonDumps(state)) @@ @],
          ret |-> Returns(None)]

\* RedisStateRepository.get_workflow_state
RedisGetWorkflowState(self, workflow_id, fault) ==
    IF self.redis_client = "none"
    THEN LET in_memory == <<>>
         IN Returns(GetWorkflowState(in_memory, workflow_id))
    ELSE IF fault # "none"
    THEN Raises(fault)
    ELSE IF workflow_id \notin DOMAIN self.keys
    THEN Returns(None)
    ELSE Returns(JsonLoads(self.keys[workflow_id]))

\* RedisStateRepository.get_all_workflow_states
RedisGetAllWorkflowStates(self, fault) ==
    IF self.redis_client = "none"
    THEN [self |-> self, ret |-> Returns(GetAllWorkflowStates(<<>>))]
    ELSE IF fault = "connection"
    THEN [self |-> [self EXCEPT !.redis_client = "none"],
          ret |-> Returns(GetAllWorkflowStates(<<>>))]
    ELSE IF fault = "other"
    THEN [self |-> self, ret |-> Returns(EmptyBag)]
    ELSE [self |-> self,
          ret |-> Returns(
             [state \in {JsonLoads(self.keys[k]) : k \in DOMAIN self.keys} |->
                 Cardinality({k \in DOMAIN self.keys :
                                 JsonLoads(self.keys[k]) = state})])]

\* what create_workflow saves for the long definition: keys "0" .. "10"
LongState ==
    ModelDict([id |-> "id2", name |-> LongDef.name, status |-> "pending",
               steps |-> StepStatesOf(LongDef.steps),
               created_at |-> 1, updated_at |-> 1])

\* the long workflow as execute_workflow first saves it: keys 0 .. 10
LongRunning ==
    ModelDict([Validate(LongState) EXCEPT !.status = "running", !.updated_at = 2])

DurableStates == {FreshState, WrittenState, LongRunning}

\* RedisStateRepository(): the client is built, or building it raised
RedisInit(ok) ==
    /\ durable.redis_client = "unset"
    /\ durable' = [durable EXCEPT
                     !.redis_client = IF ok THEN "connected" ELSE "none",
                     !.at_init = IF ok THEN "connected" ELSE "none"]
    /\ UNCHANGED <<repo, ret, defs, writes, run, http, instances, saved>>

\* a call can meet a fault only if it reaches the server
Reaches(fault) == durable.redis_client = "none" => fault = "none"

RedisSave(workflow_id, state, fault) ==
    /\ durable.redis_client # "unset"
    /\ Reaches(fault)
    /\ LET res == RedisSaveWorkflowState(durable, workflow_id, state, fault)
       IN durable' = [res.self EXCEPT !.call =
                         [op |-> "save", workflow_id |-> workflow_id,
                          state |-> state, fault |-> fault, ret |-> res.ret]]
    /\ UNCHANGED <<repo, ret, defs, writes, run, http, instances, saved>>

RedisGet(workflow_id, fault) ==
    /\ durable.redis_client # "unset"
    /\ Reaches(fault)
    /\ durable' = [durable EXCEPT !.call =
                      [op |-> "get", workflow_id |-> workflow_id,
                       state |-> None, fault |-> fault,
                       ret |-> RedisGetWorkflowState(durable, workflow_id, fault)]]
    /\ UNCHANGED <<repo, ret, defs, writes, run, http, instances, saved>>

RedisGetAll(fault) ==
    /\ durable.redis_client # "unset"
    /\ Reaches(fault)
    /\ LET res == RedisGetAllWorkflowStates(durable, fault)
       IN durable' = [res.self EXCEPT !.call =
                         [op |-> "get_all", workflow_id |-> None,
                          state |-> None, fault |-> fault, ret |-> res.ret]]
    /\ UNCHANGED <<repo, ret, defs, writes, run, http, instances, saved>>

\* RedisStateRepository.__init__ takes no argument besides self
RedisStateRepositoryNew(args) ==
    IF Len(args) > 0 THEN Raises("TypeError") ELSE Returns("redis")

\* the class of the repository get_repository caches in _instance
FactoryRepository(ping) ==
    IF ping # "ok" THEN "memory"
    ELSE LET made == RedisStateRepositoryNew(<<"redis_client">>)
         IN IF made = Returns("redis") THEN "redis" ELSE "memory"

\* RepositoryFactory.get_repository while _instance is None
FactoryGetRepository(ping) ==
    /\ "factory" \notin DOMAIN instances
    /\ IF FactoryRepository(ping) = "memory"
       THEN /\ NewRepository("factory")
       ELSE /\ RedisInit(TRUE)

\* a process obtains its repository in one of two ways: it constructs a
\* RedisStateRepository itself (api/routers.py) or it asks the factory
\* (routers/workflow.py)
Construct(ok) == instances = <<>> /\ RedisInit(ok)
Obtain(ping) == durable.redis_client = "unset" /\ FactoryGetRepository(ping)

DurableNext ==
    \/ \E ok \in BOOLEAN : Construct(ok)
    \/ \E workflow_id \in RepoKeys, state \in DurableStates, fault \in Faults :
          RedisSave(workflow_id, state, fault)
    \/ \E workflow_id \in RepoKeys, fault \in Faults : RedisGet(workflow_id, fault)
    \/ \E fault \in Faults : RedisGetAll(fault)
    \/ \E ping \in {"ok", "timeout", "refused"} : Obtain(ping)
    \/ \E key \in RepoKeys, state \in DurableStates : RepoSave("factory", key, state)

DurableSpec == Init /\ [][DurableNext]_vars

----------------------------------------------------------------------------
(* Helpers of the properties *)

Terminal == {"succeeded", "failed"}
Created(id) == id \in DOMAIN repo
Started(id) == run[id].pc \notin {"idle", "raised"}
Returned(id) == run[id].pc = "done"

\* numeric value of a step key, whichever its type
KeyNum(key) == IF key.kind = "int" THEN key.n ELSE ParseInt(key.digits)

\* the persisted record as the engine reads it back
Persisted(id) == EngineGetWorkflowState(id)

AllTasks(step, P(_)) == \A l \in 1..Len(step.tasks) : P(step.tasks[l].v)
IsPendingTask(t) == t.status = "pending" /\ t.result = <<>>
IsSucceededTask(t) == t.status = "succeeded" /\ t.result = <<TRUE>>

\* number of log entries of step step_idx, and of one task in it
LogCount(log, step_idx) ==
    Cardinality({j \in 1..Len(log) : log[j].step = step_idx})
LogCountOf(log, step_idx, name) ==
    Cardinality({j \in 1..Len(log) : log[j] = Executed(step_idx, name)})

----------------------------------------------------------------------------
\* C1: for an id held by the repository execute_workflow never raises, and
\* once started it eventually returns with the returned and the persisted
\* workflow status SUCCEEDED or FAILED (tasks may return False or raise,
\* task names may be unregistered).
C1_TerminatesTerminal ==
    /\ [](\A id \in IdSpace : Created(id) => run[id].pc # "raised")
    /\ [](\A id \in IdSpace :
            Returned(id) => /\ run[id].ws.status \in Terminal
                            /\ Persisted(id).status = run[id].ws.status)
    /\ \A id \in IdSpace : Started(id) ~> Returned(id)

\* a workflow whose run has returned FAILED, the failure being persisted
C1_Witness ==
    \E id \in IdSpace :
        /\ Returned(id)
        /\ run[id].ws.status = "failed"
        /\ Persisted(id).status = "failed"
        /\ \E j \in 1..Len(run[id].ws.steps) :
              \E l \in 1..Len(run[id].ws.steps[j].v.tasks) :
                 run[id].ws.steps[j].v.tasks[l].v.status = "failed"

----------------------------------------------------------------------------
\* the steps of a state in execution order, and those after position p
StepAt(ws, step_idx) == Get(ws.steps, step_idx)
Untouched(step) == step.status = "pending" /\ AllTasks(step, IsPendingTask)

\* C2: fail-fast at step granularity: when the step at the loop position
\* fails, the workflow becomes FAILED and execute_workflow returns at that
\* position; every later step stays PENDING with all tasks PENDING, in the
\* returned and in the persisted state, and no task of a later step is
\* ever executed.
C2_FailFast ==
    \A id \in IdSpace :
        Started(id) =>
            LET r == run[id]
            IN /\ r.ws.status = "failed" => (Returned(id) /\ ~r.success)
               /\ (Returned(id) /\ ~r.success) =>
                      (r.ws.status = "failed" /\ Persisted(id).status = "failed")
               /\ \A q \in 1..Len(r.step_indices) :
                     q > r.pos =>
                        /\ Untouched(StepAt(r.ws, r.step_indices[q]))
                        /\ Untouched(StepAt(Persisted(id), r.step_indices[q]))
                        /\ LogCount(r.execlog, r.step_indices[q]) = 0

\* a run that returned at a failed first step of a two-step workflow
C2_Witness ==
    \E id \in IdSpace :
        /\ Returned(id)
        /\ ~run[id].success
        /\ run[id].pos = 1
        /\ Len(run[id].step_indices) = 2
        /\ StepAt(run[id].ws, run[id].step_indices[1]).status = "failed"
        /\ StepAt(Persisted(id), run[id].step_indices[2]).status = "pending"

----------------------------------------------------------------------------
\* every step with a smaller numeric index than step_idx has SUCCEEDED
EarlierSucceeded(ws, step_idx) ==
    \A j \in 1..Len(ws.steps) :
        KeyNum(ws.steps[j].k) < KeyNum(step_idx) => ws.steps[j].v.status = "succeeded"

InNumericOrder(ws) ==
    \A j \in 1..Len(ws.steps) :
        ws.steps[j].v.status # "pending" => EarlierSucceeded(ws, ws.steps[j].k)

\* C3: steps run in ascending numeric order of their index: a step is
\* RUNNING (or beyond) only when every step with a smaller numeric index
\* has SUCCEEDED, in the state being executed and in the persisted state,
\* also for workflows of more than 10 steps.
C3_NumericOrder ==
    \A id \in IdSpace :
        /\ Started(id) => InNumericOrder(run[id].ws)
        /\ Created(id) => InNumericOrder(Persisted(id))

\* step 10 of a workflow of more than 10 steps is RUNNING after steps 0..9
C3_Witness ==
    \E id \in IdSpace :
        /\ Started(id)
        /\ Len(run[id].ws.steps) > 10
        /\ \E j \in 1..Len(run[id].ws.steps) :
              /\ KeyNum(run[id].ws.steps[j].k) = 10
              /\ run[id].ws.steps[j].v.status = "running"
        /\ \E j \in 1..Len(run[id].ws.steps) :
              /\ KeyNum(run[id].ws.steps[j].k) = 2
              /\ run[id].ws.steps[j].v.status = "succeeded"

----------------------------------------------------------------------------
AllStepsSucceeded(ws) ==
    \A j \in 1..Len(ws.steps) : ws.steps[j].v.status = "succeeded"
AllTasksSucceeded(ws) ==
    \A j \in 1..Len(ws.steps) :
        /\ Len(ws.steps[j].v.tasks) > 0
        /\ AllTasks(ws.steps[j].v, IsSucceededTask)

SucceededIffSteps(ws) ==
    /\ ws.status \in Terminal
    /\ ws.status = "succeeded" <=> AllStepsSucceeded(ws)
    /\ ws.status = "succeeded" => AllTasksSucceeded(ws)
    /\ AllTasksSucceeded(ws) => ws.status = "succeeded"

\* C4: when execute_workflow has returned, the workflow is SUCCEEDED iff
\* every step is SUCCEEDED, and then every task is SUCCEEDED with result
\* True; a workflow all of whose steps have tasks that all succeeded is
\* SUCCEEDED.  Holds of the returned and of the persisted state.
C4_SucceededIffAllSteps ==
    \A id \in IdSpace :
        Returned(id) => SucceededIffSteps(run[id].ws) /\ SucceededIffSteps(Persisted(id))

\* the workflow of the test has run and SUCCEEDED
C4_Witness ==
    \E id \in IdSpace :
        /\ Returned(id)
        /\ defs[id] = TestDef
        /\ run[id].ws.status = "succeeded"
        /\ Persisted(id).status = "succeeded"
        /\ Len(run[id].execlog) = 3

----------------------------------------------------------------------------
\* the steps execute_workflow has processed: all up to the loop position
\* once _execute_step has returned for it
Processed(id, q) ==
    /\ run[id].pc \in {"returned", "done"}
    /\ q \in 1..Len(run[id].step_indices)
    /\ q <= run[id].pos

StepSettled(step) ==
    /\ step.status \in Terminal
    /\ step.status = "succeeded" <=>
          \A l \in 1..Len(step.tasks) : step.tasks[l].v.status = "succeeded"

\* C5: once a step has been processed its persisted status is SUCCEEDED
\* iff every task of the step succeeded and FAILED otherwise, whatever the
\* step contains (also no tasks); it is never left RUNNING.
C5_StepStatusSettled ==
    \A id \in IdSpace : \A q \in 1..Len(run[id].step_indices) :
        Processed(id, q) =>
            /\ StepSettled(StepAt(Persisted(id), run[id].step_indices[q]))
            /\ StepSettled(StepAt(run[id].ws, run[id].step_indices[q]))

----------------------------------------------------------------------------
HasUnregistered(step) ==
    \E l \in 1..Len(step.tasks) : step.tasks[l].k \notin Registry

NoTaskRunning(ws) ==
    \A j \in 1..Len(ws.steps) : \A l \in 1..Len(ws.steps[j].v.tasks) :
        ws.steps[j].v.tasks[l].v.status # "running"

\* C6: when the step at the loop position names an unregistered task, no
\* task of the step is executed, and once execute_workflow has returned
\* the persisted step is FAILED, the workflow is FAILED and no task is
\* RUNNING.
C6_UnregisteredFailsStep ==
    \A id \in IdSpace :
        (Started(id) /\ run[id].pos \in 1..Len(run[id].step_indices)
                     /\ HasUnregistered(CurStep(run[id]))) =>
            /\ LogCount(run[id].execlog, StepIdx(run[id])) = 0
            /\ run[id].pc \notin {"sequential", "parallel", "gather", "reconcile"}
            /\ Returned(id) =>
                  /\ StepAt(Persisted(id), StepIdx(run[id])).status = "failed"
                  /\ Persisted(id).status = "failed"
                  /\ NoTaskRunning(Persisted(id))

----------------------------------------------------------------------------
\* C7: a workflow that execute_workflow ended FAILED has a persisted state
\* that is FAILED and in which at least one step is FAILED.
C7_FailedStepIdentified ==
    \A id \in IdSpace :
        (Returned(id) /\ run[id].ws.status = "failed") =>
            /\ Persisted(id) # None
            /\ Persisted(id).status = "failed"
            /\ \E j \in 1..Len(Persisted(id).steps) :
                  Persisted(id).steps[j].v.status = "failed"

----------------------------------------------------------------------------
AtStrategyReturn(id, execution_type) ==
    /\ run[id].pc = "reconcile"
    /\ CurStep(run[id]).execution_type = execution_type

\* the log entries of the current step are its first n tasks, once each, in order
RanFirst(r, n) ==
    /\ LogCount(r.execlog, StepIdx(r)) = n
    /\ \A j \in 1..n :
          r.execlog[Len(r.execlog) - n + j] = Executed(StepIdx(r), r.tasks[j])

\* C8: SequentialExecution.execute runs the tasks in input order and stops
\* at the first one that returns False or raises: on return the mapping
\* holds exactly the tasks up to and including it, True for the earlier
\* ones and False for it, no later task was executed, and without a failure
\* every task has the entry True.  While it runs, every task so far
\* returned True.
C8_SequentialFailFast ==
    \A id \in IdSpace :
        /\ run[id].pc = "sequential" =>
              /\ \A j \in 1..Len(run[id].settled) : run[id].settled[j] = "true"
              /\ Len(run[id].settled) < Len(run[id].tasks)
              /\ RanFirst(run[id], Len(run[id].settled))
        /\ AtStrategyReturn(id, "sequential") =>
              LET r == run[id]
                  n == Len(r.settled)
              IN /\ n \in 1..Len(r.tasks)
                 /\ Keys(r.results) = SubSeq(r.tasks, 1, n)
                 /\ \A j \in 1..(n - 1) : r.settled[j] = "true" /\ r.results[j].v = TRUE
                 /\ r.results[n].v = (r.settled[n] = "true")
                 /\ n < Len(r.tasks) => r.settled[n] \in {"false", "raise"}
                 /\ RanFirst(r, n)

\* [A succeeds, B raises, C]: the mapping is A -> True, B -> False, C never ran
C8_Witness ==
    \E id \in IdSpace :
        /\ AtStrategyReturn(id, "sequential")
        /\ run[id].tasks = <<"task_a", "task_b", "task_c">>
        /\ run[id].settled = <<"true", "raise">>
        /\ Len(run[id].results) = 2
        /\ LogCountOf(run[id].execlog, StepIdx(run[id]), "task_c") = 0

----------------------------------------------------------------------------
\* C9: ParallelExecution.execute executes every input task exactly once
\* and returns exactly one entry per input task: True if the task returned
\* True, False if it returned False or raised, each entry depending on its
\* own task only.
C9_ParallelAllEntries ==
    \A id \in IdSpace :
        /\ run[id].pc = "gather" =>
              \A j \in 1..Len(run[id].tasks) :
                 LogCountOf(run[id].execlog, StepIdx(run[id]), run[id].tasks[j]) = 1
        /\ AtStrategyReturn(id, "parallel") =>
              LET r == run[id]
              IN /\ Keys(r.results) = r.tasks
                 /\ Len(r.settled) = Len(r.tasks)
                 /\ \A j \in 1..Len(r.tasks) :
                       /\ r.settled[j] \in Outcomes
                       /\ r.results[j].v = (r.settled[j] = "true")
                       /\ LogCountOf(r.execlog, StepIdx(r), r.tasks[j]) = 1
                 /\ LogCount(r.execlog, StepIdx(r)) = Len(r.tasks)

\* [A succeeds, B raises, C succeeds]: A -> True, B -> False, C -> True
C9_Witness ==
    \E id \in IdSpace :
        /\ AtStrategyReturn(id, "parallel")
        /\ run[id].tasks = <<"task_a", "task_b", "task_c">>
        /\ run[id].settled = <<"true", "raise", "true">>
        /\ Values(run[id].results) = <<TRUE, FALSE, TRUE>>

----------------------------------------------------------------------------
\* the key str(n) written out for n < 100
ExpectedStrKey(n) ==
    IF n < 10 THEN [kind |-> "str", digits |-> <<n>>]
    ELSE [kind |-> "str", digits |-> <<n \div 10, n % 10>>]

NamesOf(task_defs) == {task_defs[l] : l \in 1..Len(task_defs)}

\* the state built for definition d under id
AsCreated(ws, id, d) ==
    /\ ws.id = id
    /\ ws.name = d.name
    /\ ws.status = "pending"
    /\ Len(ws.steps) = Len(d.steps)
    /\ \A j \in 1..Len(d.steps) :
          /\ ws.steps[j].k = ExpectedStrKey(j - 1)
          /\ ws.steps[j].v.execution_type = d.steps[j].execution_type
          /\ ws.steps[j].v.status = "pending"
          /\ {ws.steps[j].v.tasks[l].k : l \in 1..Len(ws.steps[j].v.tasks)}
                = NamesOf(d.steps[j].tasks)
          /\ \A l \in 1..Len(ws.steps[j].v.tasks) :
                /\ ws.steps[j].v.tasks[l].v.name = ws.steps[j].v.tasks[l].k
                /\ IsPendingTask(ws.steps[j].v.tasks[l].v)

\* what get_workflow_state returns for a persisted ws: the same state, its
\* step keys read back as the integers they spell
ReadBackOf(got, ws) ==
    /\ got # None
    /\ [got EXCEPT !.steps = <<>>] = [ws EXCEPT !.steps = <<>>]
    /\ Len(got.steps) = Len(ws.steps)
    /\ \A j \in 1..Len(ws.steps) :
          /\ got.steps[j].v = ws.steps[j].v
          /\ got.steps[j].k = [kind |-> "int", n |-> j - 1]

\* C10: create_workflow returns, for a definition of N steps, a state with
\* the id it generated, N steps keyed "0".."N-1" in definition order with the
\* definition's execution types, every step and task PENDING, results
\* unset, workflow PENDING; until execution starts the repository holds
\* exactly that state under the id and get_workflow_state returns it.
C10_CreatedState ==
    \A id \in IdSpace :
        id \in DOMAIN ret =>
            /\ AsCreated(ret[id], id, defs[id])
            /\ Created(id)
            /\ run[id].pc = "idle" =>
                  /\ repo[id] = ret[id]
                  /\ ReadBackOf(Persisted(id), ret[id])

\* the definition of more than 10 steps has just been created
C10_Witness ==
    \E id \in IdSpace :
        /\ id \in DOMAIN ret
        /\ run[id].pc = "idle"
        /\ Len(defs[id].steps) > 10
        /\ Len(ret[id].steps) = Len(defs[id].steps)
        /\ Persisted(id).status = "pending"

----------------------------------------------------------------------------
\* position of a status on the path PENDING -> RUNNING -> {SUCCEEDED, FAILED}
Rank(status) ==
    IF status = "pending" THEN 0 ELSE IF status = "running" THEN 1 ELSE 2

\* the stored record before (a) and after (b) one write: no status of the
\* workflow, of a step or of a task moved backward, no settled task changed
MovesForward(a, b) ==
    /\ Rank(a.status) <= Rank(b.status)
    /\ \A j \in 1..Len(a.steps), jj \in 1..Len(b.steps) :
          KeyNum(a.steps[j].k) = KeyNum(b.steps[jj].k) =>
              /\ Rank(a.steps[j].v.status) <= Rank(b.steps[jj].v.status)
              /\ \A l \in 1..Len(a.steps[j].v.tasks),
                     ll \in 1..Len(b.steps[jj].v.tasks) :
                    a.steps[j].v.tasks[l].k = b.steps[jj].v.tasks[ll].k =>
                       /\ Rank(a.steps[j].v.tasks[l].v.status)
                             <= Rank(b.steps[jj].v.tasks[ll].v.status)
                       /\ a.steps[j].v.tasks[l].v.status \in Terminal =>
                             b.steps[jj].v.tasks[ll].v.status
                                = a.steps[j].v.tasks[l].v.status

\* C11: across the persisted writes of one execute_workflow call no workflow
\* or step status goes from SUCCEEDED or FAILED back to PENDING or RUNNING,
\* nor from RUNNING back to PENDING, and no task status goes from SUCCEEDED
\* or FAILED to any other value.
C11_StatusMonotone ==
    [][\A id \in IdSpace :
          Created(id) => MovesForward(repo[id], repo'[id])]_vars

\* a two-step run is at its second step: the first step and its tasks are
\* settled in the repository and later writes of the call have happened
C11_Witness ==
    \E id \in IdSpace :
        /\ run[id].pc = "reconcile"
        /\ run[id].pos = 2
        /\ Persisted(id).steps[1].v.status = "succeeded"
        /\ Persisted(id).steps[2].v.status = "running"
        /\ \E l \in 1..Len(Persisted(id).steps[1].v.tasks) :
              Persisted(id).steps[1].v.tasks[l].v.status = "succeeded"

----------------------------------------------------------------------------
\* C12: for an id the repository does not hold, execute_workflow fails with
\* the not-found error before any repository write and leaves the repository
\* unchanged, and get_workflow_state returns None (it does not raise).
C12_UnknownId ==
    /\ [](\A id \in IdSpace :
             /\ ~Created(id) => EngineGetWorkflowState(id) = None
             /\ run[id].pc = "raised" => ~Created(id) /\ writes[id] = 0)
    /\ [][\A id \in IdSpace :
             run[id].pc # "raised" /\ run'[id].pc = "raised" =>
                 /\ ~Created(id)
                 /\ repo' = repo
                 /\ writes' = writes]_vars

\* execute_workflow raised for an id while the repository holds another one
C12_Witness ==
    \E id \in IdSpace :
        /\ run[id].pc = "raised"
        /\ repo # <<>>
        /\ GetWorkflowState(repo, id) = None
        /\ EngineGetWorkflowState(id) = None

----------------------------------------------------------------------------
\* what instance i answers for key, and whether get_all lists a state
Answer(i, key) == GetWorkflowState(instances[i], key)
Lists(i, state) == BagIn(state, GetAllWorkflowStates(instances[i]))

\* C13: the volatile repository is process-wide: the state most recently
\* saved under a key through any InMemoryStateRepository instance is what
\* get returns, and is listed by get_all, on every instance of the process,
\* whether created before or after the save.
C13_ProcessWide ==
    \A i \in DOMAIN instances :
        \A key \in DOMAIN saved.any :
            /\ Answer(i, key) = saved.any[key]
            /\ Lists(i, saved.any[key])

\* C14: on one instance save is an idempotent whole-state upsert: get
\* returns the state most recently saved under the key and not-found for a
\* key never saved; saving the same state again changes nothing; a save
\* replaces the whole state of its key and leaves every other key as it was.
C14_Upsert ==
    /\ [](\A i \in DOMAIN instances :
             /\ \A key \in RepoKeys :
                   Answer(i, key) = IF key \in DOMAIN saved.by[i]
                                    THEN saved.by[i][key] ELSE None
             /\ BagCardinality(GetAllWorkflowStates(instances[i]))
                   = Cardinality(DOMAIN saved.by[i]))
    /\ [][\A i \in DOMAIN instances :
             /\ \A key \in RepoKeys :
                   Answer(i, key)' # Answer(i, key) =>
                       /\ saved'.call = [instance |-> i, key |-> key,
                                         state |-> Answer(i, key)']
                       /\ saved'.call.state # None
             /\ (saved'.call # None /\ saved'.call.instance = i
                   /\ Answer(i, saved'.call.key) = saved'.call.state)
                      => instances'[i] = instances[i]]_vars

\* an instance holds two keys, one of them saved twice with different states
C14_Witness ==
    \E i \in DOMAIN instances :
        /\ DOMAIN instances[i] = RepoKeys
        /\ saved.call # None /\ saved.call.instance = i
        /\ saved.call.state = WrittenState
        /\ Answer(i, saved.call.key) = WrittenState
        /\ \E key \in RepoKeys : Answer(i, key) = TestState

----------------------------------------------------------------------------
\* C15: after k workflows were created through create_workflow on the
\* volatile repository their ids are pairwise distinct and get_all_workflows
\* returns exactly k records, one per id; executing any of them does not
\* change the number of records.
C15_OneRecordPerWorkflow ==
    /\ [](LET k == Cardinality(DOMAIN ret)
              all == EngineGetAllWorkflows
          IN /\ Cardinality({ret[id].id : id \in DOMAIN ret}) = k
             /\ BagCardinality(all) = k
             /\ \A id \in DOMAIN ret :
                   Cardinality({ws \in DOMAIN all : ws.id = ret[id].id}) = 1)
    /\ [][run' # run =>
             BagCardinality(EngineGetAllWorkflows')
                = BagCardinality(EngineGetAllWorkflows)]_vars

\* two workflows exist, one finished and one failed
C15_Witness ==
    /\ DOMAIN ret = IdSpace
    /\ BagCardinality(EngineGetAllWorkflows) = 2
    /\ \E id \in IdSpace : run[id].pc = "done" /\ Persisted(id).status = "succeeded"
    /\ \E id \in IdSpace : run[id].pc = "done" /\ Persisted(id).status = "failed"

----------------------------------------------------------------------------
\* C20: POST /workflow creates and persists the workflow before it answers,
\* answers with the new id and status "pending" while execution has not
\* started, and schedules execute_workflow for that id exactly once, only
\* after the state is persisted; from the response onward GET
\* /workflow/{id} never answers 404.
C20_AcceptedThenRun ==
    /\ [](\A id \in IdSpace :
             /\ http[id].scheduled > 0 => Created(id)
             /\ Started(id) => http[id].response # None
             /\ http[id].response # None =>
                   /\ http[id].response.status_code = 202
                   /\ http[id].response.workflow_id = id
                   /\ http[id].response.status = "pending"
                   /\ http[id].scheduled = 1
                   /\ GetWorkflow(id).status_code = 200
                   /\ GetWorkflow(id).body.id = id)
    /\ [][\A id \in IdSpace :
             http[id].response = None /\ http'[id].response # None =>
                 /\ run'[id].pc = "idle"
                 /\ repo'[id] = ret'[id]]_vars

\* a workflow was answered "pending", has since run to FAILED and is read
\* with 200 while another one has been created and not yet answered
C20_Witness ==
    \E id \in IdSpace, other \in IdSpace :
        /\ http[id].response # None
        /\ http[id].response.status = "pending"
        /\ run[id].pc = "done"
        /\ GetWorkflow(id).status_code = 200
        /\ GetWorkflow(id).body.status = "failed"
        /\ http[other].pc = "created"
        /\ GetWorkflow(other).status_code = 200

----------------------------------------------------------------------------
\* the stored record p has the steps and tasks of the created state c: the
\* same step indices in the same order, each with the same task names
SameShape(p, c) ==
    /\ Len(p.steps) = Len(c.steps)
    /\ \A j \in 1..Len(c.steps) :
          j <= Len(p.steps) =>
              /\ KeyNum(p.steps[j].k) = KeyNum(c.steps[j].k)
              /\ p.steps[j].v.execution_type = c.steps[j].v.execution_type
              /\ Keys(p.steps[j].v.tasks) = Keys(c.steps[j].v.tasks)

\* C16: at every moment during and after execute_workflow the persisted
\* state has exactly the step indices and, in each step, exactly the task
\* names it had at creation: execution adds, removes and renames nothing.
C16_ShapePreserved ==
    \A id \in IdSpace :
        Created(id) =>
            /\ SameShape(repo[id], ret[id])
            /\ SameShape(Persisted(id), ret[id])
            /\ Started(id) => SameShape(run[id].ws, ret[id])

\* a sequential step of three tasks stopped at its first task and was
\* reconciled: the two tasks that never ran are still in the stored step
C16_Witness ==
    \E id \in IdSpace :
        /\ run[id].pc = "done"
        /\ Len(defs[id].steps) = 1
        /\ defs[id].steps[1].tasks = <<"task_a", "task_b", "task_c">>
        /\ Len(run[id].execlog) = 1
        /\ Persisted(id).steps[1].v.status = "failed"
        /\ Len(Persisted(id).steps[1].v.tasks) = 3

----------------------------------------------------------------------------
\* the last call on the RedisStateRepository was a save that returned
SaveReturned ==
    /\ durable.call # None
    /\ durable.call.op = "save"
    /\ durable.call.ret = Returns(None)

\* C17: a repository obtained while the durable store was unreachable at
\* construction (a RedisStateRepository left without client, or the one
\* RepositoryFactory.get_repository returns) works as a volatile store: a
\* state whose save returned is what a later get returns, and get_all
\* lists it.
C17_FallbackStores ==
    /\ (durable.at_init = "none" /\ SaveReturned) =>
          /\ RedisGetWorkflowState(durable, durable.call.workflow_id, "none")
                = Returns(durable.call.state)
          /\ BagIn(durable.call.state,
                   RedisGetAllWorkflowStates(durable, "none").ret.returned)
    /\ "factory" \in DOMAIN instances =>
          \A key \in DOMAIN saved.by["factory"] :
              /\ Answer("factory", key) = saved.by["factory"][key]
              /\ Lists("factory", saved.by["factory"][key])

\* C18: a failure of the durable store during a save, get or get_all is
\* surfaced to the caller as an error: the call never returns a normal
\* result (an empty list, or data of an in-memory store), and the
\* repository never switches to the volatile backend.
C18_FailureSurfaced ==
    /\ [](durable.call # None /\ durable.call.fault # "none" =>
             durable.call.ret = Raises(durable.call.fault))
    /\ [][durable.redis_client = "connected" =>
             durable'.redis_client = "connected"]_vars

\* what get returns for a state saved on a connected repository: the same
\* state with every step key as the string of its digits
ReadBack(got, state) ==
    /\ got # None
    /\ [got EXCEPT !.steps = <<>>] = [state EXCEPT !.steps = <<>>]
    /\ Len(got.steps) = Len(state.steps)
    /\ \A j \in 1..Len(state.steps) :
          /\ got.steps[j].v = state.steps[j].v
          /\ got.steps[j].k.kind = "str"
          /\ ParseInt(got.steps[j].k.digits) = KeyNum(state.steps[j].k)
    /\ Validate(got) = Validate(state)

\* C19: on a connected durable repository, after save(id, s) returned,
\* get(id) returns a state structurally equal to s: same step indices (as
\* strings of digits), task names, statuses and results, for a freshly
\* created state and for states written during execution; get_all lists it.
C19_RoundTrip ==
    (durable.redis_client = "connected" /\ SaveReturned) =>
        LET got == RedisGetWorkflowState(durable, durable.call.workflow_id, "none")
            all == RedisGetAllWorkflowStates(durable, "none").ret
        IN /\ got.returned # None
           /\ ReadBack(got.returned, durable.call.state)
           /\ BagIn(got.returned, all.returned)
           /\ durable.call.state.steps = <<>> \/
                 durable.call.state.steps[1].k.kind = "str" =>
                    got.returned = durable.call.state

\* the long workflow was saved with its keys 0 .. 10 while another key holds
\* a state written during execution with a False result
C19_Witness ==
    /\ durable.redis_client = "connected"
    /\ SaveReturned
    /\ durable.call.state = LongRunning
    /\ DOMAIN durable.keys = RepoKeys
    /\ \E k \in RepoKeys : JsonLoads(durable.keys[k]) # LongRunning
                            /\ Validate(JsonLoads(durable.keys[k])) = Validate(WrittenState)
    /\ RedisGetWorkflowState(durable, durable.call.workflow_id, "none").returned.steps[11].k
          = StrKey(<<1, 0>>)

----------------------------------------------------------------------------
\* the order in which the gathered tasks of r completed is a permutation of
\* the positions of the task list
AllFinished(r) ==
    /\ Len(r.finished) = Len(r.tasks)
    /\ {r.finished[n] : n \in 1..Len(r.finished)} = 1..Len(r.tasks)
    /\ \A j \in 1..Len(r.tasks) : r.settled[j] \in Outcomes

\* C21: under every interleaving of the completions of the tasks of a
\* parallel step, ParallelExecution.execute has returned nothing while a
\* task is still running, returns only when every task has returned or
\* thrown (never on the first failure), and the mapping it returns is given
\* by the tasks and their outcomes alone, whatever the completion order.
C21_WaitsForAll ==
    /\ [](\A id \in IdSpace :
             run[id].pc = "gather" =>
                 /\ run[id].results = <<>>
                 /\ \A n \in 1..Len(run[id].finished) :
                       run[id].settled[run[id].finished[n]] \in Outcomes)
    /\ [][\A id \in IdSpace :
             run[id].pc = "gather" /\ run'[id].pc # "gather" =>
                 /\ AllFinished(run[id])
                 /\ run'[id].pc = "reconcile"
                 /\ run'[id].settled = run[id].settled
                 /\ Keys(run'[id].results) = run[id].tasks
                 /\ \A j \in 1..Len(run[id].tasks) :
                       run'[id].results[j].v = (run[id].settled[j] = "true")]_vars

\* three tasks completed last-to-first, the first to complete having raised:
\* execute is about to return
C21_Witness ==
    \E id \in IdSpace :
        /\ run[id].pc = "gather"
        /\ run[id].tasks = <<"task_a", "task_b", "task_c">>
        /\ run[id].finished = <<3, 2, 1>>
        /\ run[id].settled = <<"true", "false", "raise">>

----------------------------------------------------------------------------
\* the stored step at position j
StoredStep(id, j) == repo[id].steps[j].v

\* a step the loop went past is settled in the stored record: terminal, and
\* every task of it has its status and result
StoredSettled(id, j) ==
    /\ StoredStep(id, j).status \in Terminal
    /\ \A l \in 1..Len(StoredStep(id, j).tasks) :
          /\ StoredStep(id, j).tasks[l].v.status \in Terminal
          /\ StoredStep(id, j).tasks[l].v.result # <<>>

\* positions of the steps whose stored record differs between two states
ChangedSteps(a, b) ==
    {j \in 1..Len(a.steps) : j > Len(b.steps) \/ a.steps[j].v # b.steps[j].v}

\* C22: every step transition is a persisted write of its own, in execution
\* order: while the tasks of a step execute the stored step is RUNNING; a
\* step is set RUNNING only after the stored record shows every earlier
\* step terminal with its task results; a write changes either one step or
\* the workflow status; the workflow's terminal status is written after the
\* last step write and is in the repository when execute_workflow returns.
C22_WriteOrder ==
    /\ [](\A id \in IdSpace :
             /\ run[id].pc \in {"step", "sequential", "parallel", "gather", "reconcile"} =>
                   /\ StoredStep(id, run[id].pos).status = "running"
                   /\ \A j \in 1..(run[id].pos - 1) : StoredSettled(id, j)
                   /\ repo[id].status = "running"
             /\ run[id].pc = "done" =>
                   /\ repo[id].status \in Terminal
                   /\ repo[id] = ModelDict(run[id].ws))
    /\ [][\A id \in IdSpace :
             (Created(id) /\ Started(id) /\ repo'[id] # repo[id]) =>
                 /\ writes'[id] = writes[id] + 1
                 /\ Cardinality(ChangedSteps(repo[id], repo'[id])) <= 1
                 /\ repo'[id].status # repo[id].status =>
                       /\ ChangedSteps(repo[id], repo'[id]) = {}
                       /\ run'[id].pc = "done"
                       /\ repo'[id].status \in Terminal
                 /\ \A j \in ChangedSteps(repo[id], repo'[id]) :
                       /\ j = run[id].pos
                       /\ repo'[id].steps[j].v.status = "running" =>
                             /\ run[id].execlog = run'[id].execlog
                             /\ LogCount(run[id].execlog, StepIdx(run'[id])) = 0
                             /\ \A l \in 1..(j - 1) : StoredSettled(id, l)]_vars

\* the second step of a two-step workflow has been reconciled: two RUNNING
\* writes and two terminal step writes have been made, the workflow write
\* is still to come
C22_Witness ==
    \E id \in IdSpace :
        /\ run[id].pc = "returned"
        /\ run[id].pos = 2
        /\ writes[id] = 6
        /\ StoredSettled(id, 1)
        /\ StoredStep(id, 2).status = "failed"
        /\ repo[id].status = "running"

----------------------------------------------------------------------------
\* the step of state ws at position pos stopped at its n-th task: the tasks
\* before it SUCCEEDED with result True, it FAILED with result False, the
\* tasks after it are PENDING with no result
StoppedAt(ws, pos, n) ==
    LET step == ws.steps[pos].v
    IN /\ step.status = "failed"
       /\ n \in 1..Len(step.tasks)
       /\ \A l \in 1..Len(step.tasks) :
             /\ l < n => IsSucceededTask(step.tasks[l].v)
             /\ l = n => step.tasks[l].v.status = "failed"
                         /\ step.tasks[l].v.result = <<FALSE>>
             /\ l > n => IsPendingTask(step.tasks[l].v)

\* C23: when a sequential step stopped early at a failing task,
\* reconciliation marks the step FAILED, every task before the failing one
\* SUCCEEDED with result true, the failing task FAILED with result false,
\* and leaves every task after it, which never ran, PENDING with result
\* unset, in the returned and in the persisted state.
C23_LaterTasksPending ==
    \A id \in IdSpace :
        (/\ run[id].pc \in {"returned", "done"}
         /\ run[id].pos <= Len(run[id].step_indices)
         /\ CurStep(run[id]).execution_type = "sequential"
         /\ CurStep(run[id]).status = "failed") =>
            LET n == LogCount(run[id].execlog, StepIdx(run[id]))
            IN /\ StoppedAt(run[id].ws, run[id].pos, n)
               /\ StoppedAt(repo[id], run[id].pos, n)
               /\ StoppedAt(Persisted(id), run[id].pos, n)

\* [task_a, task_b, task_c] stopped at task_a: task_b and task_c never ran
\* and are PENDING in the stored step, which is FAILED
C23_Witness ==
    \E id \in IdSpace :
        /\ run[id].pc = "done"
        /\ Len(defs[id].steps) = 1
        /\ defs[id].steps[1].execution_type = "sequential"
        /\ defs[id].steps[1].tasks = <<"task_a", "task_b", "task_c">>
        /\ LogCount(run[id].execlog, StepIdx(run[id])) = 1
        /\ StoppedAt(repo[id], 1, 1)
        /\ Persisted(id).status = "failed"

----------------------------------------------------------------------------
\* C24: no persisted state is smaller than the definition it was created
\* from: for every definition, also one that lists a task name more than
\* once within a step, the persisted workflow holds as many steps as the
\* definition and each persisted step as many task entries as its step
\* definition has tasks.
C24_NotSmallerThanDefinition ==
    \A id \in IdSpace :
        Created(id) =>
            /\ Len(repo[id].steps) = Len(defs[id].steps)
            /\ \A j \in 1..Len(defs[id].steps) :
                  Len(repo[id].steps[j].v.tasks) = Len(defs[id].steps[j].tasks)

----------------------------------------------------------------------------
\* the statuses of a stored record: workflow, steps and tasks
StatusesOf(d) ==
    [status |-> d.status,
     steps |-> [j \in 1..Len(d.steps) |->
                  [status |-> d.steps[j].v.status,
                   tasks |-> [l \in 1..Len(d.steps[j].v.tasks) |->
                                d.steps[j].v.tasks[l].v.status]]]]

\* C25: with time a counter that advances at every persisted write, every
\* write of execute_workflow that changes the status of the workflow, of a
\* step or of a task carries an updated_at newer than the one of the
\* previously persisted state, and created_at never changes.
C25_UpdatedAtRefreshed ==
    [][\A id \in IdSpace :
          (Created(id) /\ repo'[id] # repo[id]) =>
              /\ repo'[id].created_at = repo[id].created_at
              /\ StatusesOf(repo'[id]) # StatusesOf(repo[id]) =>
                    repo'[id].updated_at > repo[id].updated_at]_vars

----------------------------------------------------------------------------
\* the tasks of the stored record of id that have a terminal status are
\* the tasks its own execute_workflow call executed
OwnResultsOnly(id) ==
    \A j \in 1..Len(repo[id].steps) :
        \A l \in 1..Len(repo[id].steps[j].v.tasks) :
            repo[id].steps[j].v.tasks[l].v.status \in Terminal
               <=> LogCountOf(run[id].execlog, repo[id].steps[j].k,
                              repo[id].steps[j].v.tasks[l].k) = 1

\* C26: workflows with distinct ids executed concurrently on the shared
\* volatile repository do not interfere: a step of one workflow's
\* execute_workflow changes neither the persisted record nor the run of
\* another, the persisted record of a workflow is at every moment the one
\* its own call built from the state it was created with, and its final
\* record holds the results of its own tasks only.
C26_NoInterference ==
    /\ [](\A id \in IdSpace :
             Created(id) =>
                 /\ repo[id].id = id
                 /\ repo[id] = IF Started(id) THEN ModelDict(run[id].ws) ELSE ret[id]
                 /\ SameShape(repo[id], ret[id])
                 /\ run[id].pc = "done" => OwnResultsOnly(id))
    /\ [][\A id \in IdSpace, other \in IdSpace :
             (other # id /\ run'[id] # run[id] /\ Created(other)) =>
                 /\ other \in DOMAIN repo'
                 /\ repo'[other] = repo[other]
                 /\ run'[other] = run[other]
                 /\ writes'[other] = writes[other]]_vars

\* two workflows of the same definition ran interleaved to different ends:
\* one SUCCEEDED, the other FAILED at its first task while the first was
\* between its steps
C26_Witness ==
    \E id \in IdSpace, other \in IdSpace :
        /\ id # other
        /\ Created(id) /\ Created(other)
        /\ defs[id] = TestDef /\ defs[other] = TestDef
        /\ run[id].pc = "done" /\ repo[id].status = "succeeded"
        /\ run[other].pc = "done" /\ repo[other].status = "failed"
        /\ Len(run[other].execlog) = 1
        /\ writes[id] = 7
        /\ writes[other] = 5

----------------------------------------------------------------------------
\* the stored step at position j holds task name, and the name also occurs
\* in another step of the workflow
SharedName(id, j, name) ==
    /\ HasKey(StoredStep(id, j).tasks, name)
    /\ \E jj \in 1..Len(repo[id].steps) :
          jj # j /\ HasKey(StoredStep(id, jj).tasks, name)

\* C27: task names are unique per step only: a task name that appears in
\* several steps of a workflow is executed once in each of those steps that
\* is reached and in no other, and the TaskState of each step is written
\* from the result of that step's own execution: reconciling one step
\* leaves the entry of the same name in every other step as it was.
C27_PerStepNames ==
    /\ [](\A id \in IdSpace :
             (Created(id) /\ Started(id)) =>
                 \A j \in 1..Len(repo[id].steps) :
                    \A l \in 1..Len(StoredStep(id, j).tasks) :
                       LET t == StoredStep(id, j).tasks[l]
                           ran == LogCountOf(run[id].execlog, repo[id].steps[j].k, t.k)
                       IN /\ ran <= 1
                          /\ j > run[id].pos => ran = 0 /\ IsPendingTask(t.v)
                          /\ j < run[id].pos => ran = 1 /\ IsSucceededTask(t.v)
                          /\ t.v.status \in Terminal => ran = 1)
    /\ [][\A id \in IdSpace :
             (run[id].pc = "reconcile" /\ run'[id].pc # "reconcile") =>
                 \A j \in 1..Len(repo[id].steps) :
                    IF j = run[id].pos
                    THEN \A l \in 1..Len(Values(run[id].results)) :
                            LET name == run[id].tasks[l]
                            IN /\ Get(repo'[id].steps[j].v.tasks, name).result
                                     = <<Values(run[id].results)[l]>>
                               /\ Get(repo'[id].steps[j].v.tasks, name).status
                                     = IF Values(run[id].results)[l]
                                       THEN "succeeded" ELSE "failed"
                    ELSE repo'[id].steps[j] = repo[id].steps[j]]_vars

\* task_a is the task of both steps: it succeeded in the first step and
\* failed in the second, and each step shows its own result
C27_Witness ==
    \E id \in IdSpace :
        /\ run[id].pc = "done"
        /\ Len(repo[id].steps) = 2
        /\ SharedName(id, 1, "task_a")
        /\ IsSucceededTask(Get(StoredStep(id, 1).tasks, "task_a"))
        /\ Get(StoredStep(id, 2).tasks, "task_a").status = "failed"
        /\ LogCount(run[id].execlog, repo[id].steps[1].k) = 1
        /\ LogCount(run[id].execlog, repo[id].steps[2].k) = 1

----------------------------------------------------------------------------
\* a task's result is set exactly when its status is terminal
ResultMatchesStatus(t) ==
    /\ t.status \in {"pending", "succeeded", "failed"}
    /\ t.status = "pending" <=> t.result = <<>>
    /\ t.status = "succeeded" <=> t.result = <<TRUE>>
    /\ t.status = "failed" <=> t.result = <<FALSE>>

\* C28: in every persisted state no task is RUNNING (a task goes from
\* PENDING directly to SUCCEEDED or FAILED), and a task's result is true iff
\* its status is SUCCEEDED, false iff it is FAILED and unset iff it is
\* PENDING.
C28_TaskResultIffTerminal ==
    \A id \in IdSpace :
        Created(id) =>
            /\ \A j \in 1..Len(repo[id].steps) :
                  AllTasks(repo[id].steps[j].v, ResultMatchesStatus)
            /\ \A j \in 1..Len(Persisted(id).steps) :
                  AllTasks(Persisted(id).steps[j].v, ResultMatchesStatus)

\* a parallel step was reconciled with one task of each kind of outcome:
\* True, False and raised
C28_Witness ==
    \E id \in IdSpace :
        /\ run[id].pc = "done"
        /\ Len(repo[id].steps) = 1
        /\ StoredStep(id, 1).execution_type = "parallel"
        /\ Len(StoredStep(id, 1).tasks) = 3
        /\ StoredStep(id, 1).tasks[1].v.result = <<TRUE>>
        /\ StoredStep(id, 1).tasks[2].v.result = <<FALSE>>
        /\ StoredStep(id, 1).tasks[3].v.result = <<FALSE>>
        /\ StoredStep(id, 1).status = "failed"

----------------------------------------------------------------------------
\* C29: on every path by which execute_workflow returns normally (all
\* steps succeeded, a step failed, an unregistered task name, a step with
\* no tasks, an unexpected error inside step execution) the state it
\* returns equals the state last persisted for the id, and with a single
\* run per workflow the persisted record does not change afterwards.
C29_ReturnedIsPersisted ==
    /\ [](\A id \in IdSpace :
             run[id].pc = "done" =>
                 /\ Persisted(id) = run[id].ws
                 /\ GetWorkflowState(repo, id) = ModelDict(run[id].ws)
                 /\ run[id].ws.status \in Terminal)
    /\ [][\A id \in IdSpace :
             run[id].pc = "done" =>
                 /\ run'[id] = run[id]
                 /\ repo'[id] = repo[id]
                 /\ writes'[id] = writes[id]]_vars

\* execute_workflow returned after the handler of _execute_step marked a
\* step FAILED whose tasks had all succeeded
C29_Witness ==
    \E id \in IdSpace :
        /\ run[id].pc = "done"
        /\ run[id].ws.status = "failed"
        /\ CurStep(run[id]).status = "failed"
        /\ Len(CurStep(run[id]).tasks) = 3
        /\ AllTasks(CurStep(run[id]), IsSucceededTask)
        /\ Persisted(id) = run[id].ws
====
